---- MODULE Spec2Model ----
(***************************************************************************)
(* Model of src/app.py: the Streamlit page that builds an extraction       *)
(* schema from the sidebar's field list, calls Firecrawl's extract, and    *)
(* turns the response into a markdown table appended to the chat history.  *)
(*                                                                         *)
(* Three specifications:                                                   *)
(*   Spec        the session: sidebar edits, Add Field, chat submissions   *)
(*   SpecNorm    the "Handle Data Output" block applied to one response    *)
(*   SpecSchema  create_schema_from_fields applied to one field list       *)
(***************************************************************************)
EXTENDS Integers, Sequences, FiniteSets, TLC

VARIABLES
    messages,       \* st.session_state.messages
    schema_fields,  \* st.session_state.schema_fields
    user_api_key,   \* the sidebar's "Firecrawl API Key" text input
    website_url,    \* the sidebar's "Enter Website URL" text input
    last,           \* what the chat handler did in the latest script run
    fn_in,          \* SpecNorm / SpecSchema: the argument
    fn_out          \* SpecNorm / SpecSchema: the result, NotRun before the call

vars == <<messages, schema_fields, user_api_key, website_url, last, fn_in, fn_out>>

(***************************************************************************)
(* Python values.  Every value is a record of one shape, so that values of *)
(* different Python types can be compared: a dict keeps its keys in        *)
(* insertion order in `keys`, with the values at the same positions of     *)
(* `elems`; a list keeps its items in `elems`; a scalar (str, number) is   *)
(* its text in `atom`.                                                     *)
(***************************************************************************)
None_ == [kind |-> "none", keys |-> <<>>, elems |-> <<>>, atom |-> ""]

NaN == [kind |-> "nan", keys |-> <<>>, elems |-> <<>>, atom |-> ""]

Scalar(a) == [kind |-> "scalar", keys |-> <<>>, elems |-> <<>>, atom |-> a]

List(items) == [kind |-> "list", keys |-> <<>>, elems |-> items, atom |-> ""]

Dict(ks, vs) == [kind |-> "dict", keys |-> ks, elems |-> vs, atom |-> ""]

IsList(v) == v.kind = "list"

IsDict(v) == v.kind = "dict"

\* bool(v): None, "", [] and {} are falsy
Truthy(v) ==
    CASE v.kind = "none" -> FALSE
      [] v.kind = "scalar" -> v.atom # ""
      [] OTHER -> Len(v.elems) > 0

HasKey(d, k) == \E i \in 1..Len(d.keys) : d.keys[i] = k

\* d[k] for a key that is present
GetItem(d, k) == d.elems[CHOOSE i \in 1..Len(d.keys) : d.keys[i] = k]

\* d.get(k): None when the key is absent
Get(d, k) == IF HasKey(d, k) THEN GetItem(d, k) ELSE None_

\* d[k] = v: a present key keeps its position, a new one goes last
SetItem(d, k, v) ==
    IF HasKey(d, k)
    THEN Dict(d.keys, [i \in 1..Len(d.keys) |-> IF d.keys[i] = k THEN v ELSE d.elems[i]])
    ELSE Dict(Append(d.keys, k), Append(d.elems, v))

\* The outcome of a call: a value, or the exception it raised
Return(v) == [exc |-> "", val |-> v]

Raise(e) == [exc |-> e, val |-> None_]

\* The response of a handler run that did not call app.extract
NotCalled == Raise("NotCalled")

(***************************************************************************)
(* Strings the page produces.  A string is kept as what it renders: a      *)
(* literal text, the markdown of a table (its header and its rows of       *)
(* cells), or str() of a value.                                            *)
(***************************************************************************)
Plain(s) == [form |-> "plain", text |-> s, columns |-> <<>>, rows |-> <<>>, of |-> None_]

StrOf(v) == [form |-> "str", text |-> "", columns |-> <<>>, rows |-> <<>>, of |-> v]

RECURSIVE UnionKeys(_, _)
\* The columns pandas gives a list of records: the union of the rows' keys in
\* first-seen order; an item that is no dict goes to the one column "0"
UnionKeys(items, acc) ==
    IF items = <<>> THEN acc
    ELSE LET row == Head(items)
             ks == IF IsDict(row) THEN row.keys ELSE <<"0">>
             new == SelectSeq(ks, LAMBDA k : \A j \in 1..Len(acc) : acc[j] # k)
         IN UnionKeys(Tail(items), acc \o new)

\* The cell of a row under a column: NaN for a field the row lacks
Cell(row, col) ==
    IF IsDict(row) THEN (IF HasKey(row, col) THEN GetItem(row, col) ELSE NaN)
    ELSE row

\* pd.DataFrame(data) for a non-empty list
DataFrame(data) ==
    LET cols == UnionKeys(data.elems, <<>>)
    IN [columns |-> cols,
        rows |-> [i \in 1..Len(data.elems) |->
                    [j \in 1..Len(cols) |-> Cell(data.elems[i], cols[j])]]]

\* df.to_markdown(index=False): a header line, then one line per row
ToMarkdown(df) ==
    [form |-> "markdown", text |-> "", columns |-> df.columns, rows |-> df.rows, of |-> None_]

convert_to_table(data) ==
    IF ~Truthy(data) THEN Plain("")
    ELSE ToMarkdown(DataFrame(data))

\* list(data['data'].keys())[0]: IndexError on a dict with no key
first_key(d) ==
    IF Len(d.keys) = 0 THEN Raise("IndexError") ELSE Return(Scalar(d.keys[1]))

\* The "Handle Data Output" block: the table string, or the exception raised
HandleDataOutput(data) ==
    LET d == Get(data, "data") IN
    IF IsList(d) THEN Return(convert_to_table(d))
    ELSE IF IsDict(d) THEN
        LET fk == first_key(d) IN
        IF fk.exc # "" THEN Raise(fk.exc)
        ELSE IF IsList(GetItem(d, fk.val.atom))
             THEN Return(convert_to_table(GetItem(d, fk.val.atom)))
             ELSE Return(convert_to_table(List(<<d>>)))
    ELSE Return(StrOf(data))

(***************************************************************************)
(* Schema Builder                                                          *)
(***************************************************************************)
\* The selectbox's options, which are also type_mapping's keys
options == <<"str", "bool", "int", "float">>

SupportedTypes == {options[i] : i \in 1..Len(options)}

\* type_mapping[field["type"]]: KeyError for a token that is no key
type_mapping(t) ==
    IF t \in SupportedTypes THEN Return(Scalar(t)) ELSE Raise("KeyError")

\* Mutant: the loop looks every field's type up, named or not
FieldIsUsed_Mut(field) == TRUE

\* if field["name"]: the loop skips a field whose name is empty
FieldIsUsed(field) == field.name # ""

RECURSIVE AnnotateFields(_, _)
\* The loop of create_dynamic_model, from the fields left to look at and the
\* field_annotations built so far
AnnotateFields(fields, field_annotations) ==
    IF fields = <<>> THEN Return(field_annotations)
    ELSE LET field == Head(fields) IN
         IF FieldIsUsed(field) THEN
             LET ty == type_mapping(field.type) IN
             IF ty.exc # "" THEN Raise(ty.exc)
             ELSE AnnotateFields(Tail(fields),
                                 SetItem(field_annotations, field.name, ty.val))
         ELSE AnnotateFields(Tail(fields), field_annotations)

\* The class type("ExtractSchema", (BaseModel,), {"__annotations__": ...}),
\* kept as its annotations
create_dynamic_model(fields) == AnnotateFields(fields, Dict(<<>>, <<>>))

\* Names the text input can hold that start with an underscore
PrivateNames == {"_id"}

\* name.startswith("_"): BaseModel's metaclass makes such an annotation a
\* private attribute, which is no field of the model
IsPrivateName(n) == n \in PrivateNames

\* The JSON-schema type pydantic gives each Python type
JsonType(t) ==
    CASE t = "str" -> "string"
      [] t = "bool" -> "boolean"
      [] t = "int" -> "integer"
      [] t = "float" -> "number"

\* model_class.model_json_schema(): an object schema with one property per
\* model field, all of them required (none has a default)
model_json_schema(annotations) ==
    LET idx == SelectSeq([i \in 1..Len(annotations.keys) |-> i],
                         LAMBDA i : ~IsPrivateName(annotations.keys[i]))
        names == [j \in 1..Len(idx) |-> annotations.keys[idx[j]]]
        props == Dict(names,
                      [j \in 1..Len(idx) |->
                          Dict(<<"type">>, <<Scalar(JsonType(annotations.elems[idx[j]].atom))>>)])
        required == List([j \in 1..Len(names) |-> Scalar(names[j])])
    IN IF names = <<>>
       THEN Dict(<<"properties", "title", "type">>,
                 <<props, Scalar("ExtractSchema"), Scalar("object")>>)
       ELSE Dict(<<"properties", "required", "title", "type">>,
                 <<props, required, Scalar("ExtractSchema"), Scalar("object")>>)

create_schema_from_fields(fields) ==
    IF ~(\E i \in 1..Len(fields) : fields[i].name # "") THEN Return(None_)
    ELSE LET model_class == create_dynamic_model(fields) IN
         IF model_class.exc # "" THEN Raise(model_class.exc)
         ELSE Return(model_json_schema(model_class.val))

(***************************************************************************)
(* Bounds and input sets                                                   *)
(***************************************************************************)
\* SpecNorm: the most keys a `data` mapping has
MaxKeys == 2

\* SpecSchema: the most fields of a field list
MaxFnFields == 2

\* if len(st.session_state.schema_fields) < 5
MaxFields == 5

\* The state of a pure function's specification before the call
NotRun == [exc |-> "NotRun", val |-> None_]

HasRun == fn_out.exc # "NotRun"

Row1 == Dict(<<"name">>, <<Scalar("x")>>)

Row2 == Dict(<<"name", "price">>, <<Scalar("y"), Scalar("5")>>)

RowLists == {<<>>, <<Row1>>, <<Row1, Row2>>, <<Row2, Row1>>, <<Scalar("a"), Scalar("b")>>}

DataKeys == {"title", "products", "reviews"}

\* What a key of a `data` mapping holds: a scalar or a list of records
KeyValues == {Scalar("t"), Scalar("5")} \cup {List(rows) : rows \in RowLists}

\* The mappings of at most MaxKeys distinct keys, in every insertion order
DataDicts ==
    UNION {{Dict(ks, vs) :
                ks \in {s \in [1..n -> DataKeys] : \A i, j \in 1..n : s[i] = s[j] => i = j},
                vs \in [1..n -> KeyValues]} : n \in 0..MaxKeys}

DataValues ==
    {None_, Scalar("unexpected")} \cup {List(rows) : rows \in RowLists} \cup DataDicts

\* What app.extract returns: a mapping with or without a "data" key
Responses ==
    {Dict(<<"success">>, <<Scalar("true")>>)}
        \cup {Dict(<<"success", "data">>, <<Scalar("true"), d>>) : d \in DataValues}

DefaultField == [name |-> "", type |-> "str"]

\* SpecSchema: the names and type tokens a field may hold; "list" is a token
\* the selectbox does not offer
FnNames == {"", "price", "inStock", "_id"}

FnTypes == SupportedTypes \cup {"list"}

FnFieldLists ==
    UNION {[1..n -> [name : FnNames, type : FnTypes]] : n \in 1..MaxFnFields}

\* A script run with no chat input: the handler's block is skipped
NoSubmission ==
    [outcome |-> "none", prompt |-> "", shown |-> Plain(""),
     schema_built |-> FALSE, called |-> FALSE, url |-> "",
     schema |-> None_, params |-> None_, response |-> NotCalled]

SessionInit ==
    /\ messages = <<>>
    /\ schema_fields = <<DefaultField>>
    /\ website_url = ""
    /\ last = NoSubmission

(***************************************************************************)
(* SpecNorm: the Handle Data Output block on one response                  *)
(***************************************************************************)
NormInit ==
    /\ SessionInit
    /\ user_api_key = ""
    /\ fn_in \in Responses
    /\ fn_out = NotRun

Normalize ==
    /\ ~HasRun
    /\ fn_out' = HandleDataOutput(fn_in)
    /\ UNCHANGED <<messages, schema_fields, user_api_key, website_url, last, fn_in>>

NormNext == Normalize

SpecNorm == NormInit /\ [][NormNext]_vars

(***************************************************************************)
(* SpecSchema: create_schema_from_fields on one field list                 *)
(***************************************************************************)
SchemaInit ==
    /\ SessionInit
    /\ user_api_key = ""
    /\ fn_in \in FnFieldLists
    /\ fn_out = NotRun

BuildSchema ==
    /\ ~HasRun
    /\ fn_out' = create_schema_from_fields(fn_in)
    /\ UNCHANGED <<messages, schema_fields, user_api_key, website_url, last, fn_in>>

SchemaNext == BuildSchema

SpecSchema == SchemaInit /\ [][SchemaNext]_vars

(***************************************************************************)
(* Spec: the session                                                       *)
(***************************************************************************)
UserMessage(prompt) == [role |-> "user", content |-> Plain(prompt)]

AssistantMessage(table) == [role |-> "assistant", content |-> table]

\* st.error's text
ErrorText(e) == [form |-> "error", text |-> e, columns |-> <<>>, rows |-> <<>>, of |-> None_]

\* Mutant: the URL check is missing
ValidationError_Mut(key, url) == IF key = "" THEN "missing_key" ELSE ""

\* The Validation Checks: which st.error the handler shows instead of
\* calling, "" when both inputs are there
ValidationError(key, url) ==
    IF key = "" THEN "missing_key"
    ELSE IF url = "" THEN "missing_url"
    ELSE ""

\* Mutant: the schema entry is set without the test
ExtractParams_Mut(prompt, schema) ==
    Dict(<<"prompt", "schema">>, <<Scalar(prompt), schema>>)

\* extract_params: the prompt, and the schema if there is one
ExtractParams(prompt, schema) ==
    IF Truthy(schema)
    THEN SetItem(Dict(<<"prompt">>, <<Scalar(prompt)>>), "schema", schema)
    ELSE Dict(<<"prompt">>, <<Scalar(prompt)>>)

\* Mutant: the except branch also records what it shows in the history
AssistantReply_Mut(result) ==
    <<AssistantMessage(IF result.exc = "" THEN result.val ELSE ErrorText(result.exc))>>

\* The messages the try block appends: the table, unless an exception was
\* raised before the append
AssistantReply(result) ==
    IF result.exc = "" THEN <<AssistantMessage(result.val)>> ELSE <<>>

\* The try block, once validation has passed: the table string, or the
\* exception the except branch catches, with what was passed to app.extract
TryExtract(prompt, response, url, fields) ==
    LET schema == create_schema_from_fields(fields)
        params == ExtractParams(prompt, schema.val)
        made == [schema_built |-> TRUE, called |-> TRUE, url |-> url,
                 schema |-> schema.val, params |-> params, response |-> response]
        table == HandleDataOutput(response.val)
    IN IF schema.exc # ""
       THEN [result |-> Raise(schema.exc),
             made |-> [schema_built |-> FALSE, called |-> FALSE, url |-> "",
                       schema |-> None_, params |-> None_, response |-> NotCalled]]
       ELSE IF response.exc # "" THEN [result |-> Raise(response.exc), made |-> made]
       ELSE [result |-> table, made |-> made]

\* One run of the chat handler on a prompt; `response` is what app.extract
\* returns or raises if it is called
ChatHandler(prompt, response) ==
    LET invalid == ValidationError(user_api_key, website_url)
        try == TryExtract(prompt, response, website_url, schema_fields)
    IN IF invalid # ""
       THEN [appended |-> <<UserMessage(prompt)>>,
             last |-> [outcome |-> invalid, prompt |-> prompt,
                       shown |-> ErrorText(invalid),
                       schema_built |-> FALSE, called |-> FALSE, url |-> "",
                       schema |-> None_, params |-> None_, response |-> NotCalled]]
       ELSE [appended |-> <<UserMessage(prompt)>> \o AssistantReply(try.result),
             last |-> [outcome |-> IF try.result.exc = "" THEN "ok" ELSE "exception",
                       prompt |-> prompt,
                       shown |-> IF try.result.exc = "" THEN try.result.val
                                 ELSE ErrorText(try.result.exc),
                       schema_built |-> try.made.schema_built,
                       called |-> try.made.called,
                       url |-> try.made.url,
                       schema |-> try.made.schema,
                       params |-> try.made.params,
                       response |-> try.made.response]]

\* The most messages of a history
MaxMessages == 4

\* The fields of the list that are edited: the first MaxEditable
MaxEditable == 1

ApiKeys == {"", "fc-key"}

Urls == {"", "https://example.com"}

Prompts == {"list the products", "what is the price"}

\* The names typed into a Field Name input
SessionNames == {"", "price", "_id"}

\* What app.extract does when called: it raises, or returns a response whose
\* data is a list of records, an empty mapping or a string
SessionResponses ==
    {Raise("CollaboratorError")}
        \cup {Return(Dict(<<"success", "data">>, <<Scalar("true"), d>>)) :
                d \in {List(<<Row1>>), Dict(<<>>, <<>>), Scalar("unexpected")}}

Init ==
    /\ SessionInit
    /\ user_api_key \in ApiKeys
    /\ fn_in = None_
    /\ fn_out = NotRun

SetApiKey(key) ==
    /\ key # user_api_key
    /\ user_api_key' = key
    /\ last' = NoSubmission
    /\ UNCHANGED <<messages, schema_fields, website_url, fn_in, fn_out>>

SetWebsiteUrl(url) ==
    /\ url # website_url
    /\ website_url' = url
    /\ last' = NoSubmission
    /\ UNCHANGED <<messages, schema_fields, user_api_key, fn_in, fn_out>>

EditFieldName(i, name) ==
    /\ i \in 1..Len(schema_fields)
    /\ name # schema_fields[i].name
    /\ schema_fields' = [schema_fields EXCEPT ![i].name = name]
    /\ last' = NoSubmission
    /\ UNCHANGED <<messages, user_api_key, website_url, fn_in, fn_out>>

EditFieldType(i, type) ==
    /\ i \in 1..Len(schema_fields)
    /\ type # schema_fields[i].type
    /\ schema_fields' = [schema_fields EXCEPT ![i].type = type]
    /\ last' = NoSubmission
    /\ UNCHANGED <<messages, user_api_key, website_url, fn_in, fn_out>>

\* Mutant: the test lets a sixth field in
CanAddField_Mut(fields) == Len(fields) <= MaxFields

\* if len(st.session_state.schema_fields) < 5: the button is there
CanAddField(fields) == Len(fields) < MaxFields

AddField ==
    /\ CanAddField(schema_fields)
    /\ schema_fields' = Append(schema_fields, [name |-> "", type |-> "str"])
    /\ last' = NoSubmission
    /\ UNCHANGED <<messages, user_api_key, website_url, fn_in, fn_out>>

Submit(prompt, response) ==
    /\ Len(messages) + 2 <= MaxMessages
    /\ LET run == ChatHandler(prompt, response) IN
          /\ messages' = messages \o run.appended
          /\ last' = run.last
    /\ UNCHANGED <<schema_fields, user_api_key, website_url, fn_in, fn_out>>

\* reset_chat is defined in the source but no widget calls it: it is no step
\* of the session
Next ==
    \/ \E key \in ApiKeys : SetApiKey(key)
    \/ \E url \in Urls : SetWebsiteUrl(url)
    \/ \E i \in 1..MaxEditable, name \in SessionNames : EditFieldName(i, name)
    \/ \E i \in 1..MaxEditable, type \in SupportedTypes : EditFieldType(i, type)
    \/ AddField
    \/ \E prompt \in Prompts, response \in SessionResponses : Submit(prompt, response)

Spec == Init /\ [][Next]_vars

(***************************************************************************)
(* The session: properties (Spec).  `last` describes the latest script run *)
(* and every edit of the sidebar is a script run of its own, so while      *)
(* `last` shows a submission the sidebar is as the handler read it.        *)
(***************************************************************************)
Submitted == last.outcome # "none"

SomeFieldNamed == \E i \in 1..Len(schema_fields) : schema_fields[i].name # ""

\* C5: the parameters passed to the extraction service hold a `schema` entry
\* if and only if at least one field has a non-empty name; when every name is
\* empty the Schema Builder returns None and the call carries the prompt only.
C5_SchemaEntryIffNamedField ==
    last.called =>
        /\ HasKey(last.params, "schema") <=> SomeFieldNamed
        /\ Get(last.params, "prompt") = Scalar(last.prompt)
        /\ SomeFieldNamed =>
              /\ last.schema # None_
              /\ Get(last.params, "schema") = last.schema
        /\ ~SomeFieldNamed =>
              /\ last.schema = None_
              /\ last.params.keys = <<"prompt">>

\* The call was made with a schema for the field "price"
C5_Witness ==
    /\ last.called
    /\ schema_fields[1].name = "price"
    /\ HasKey(last.params, "schema")
    /\ HasKey(Get(last.schema, "properties"), "price")

\* C7: a submission with an empty API key or an empty URL builds no schema,
\* makes no call and ends with the inline error (the missing-key one when
\* both are empty); the service is called only with both non-empty.
C7_NoCallWithoutKeyAndUrl ==
    /\ (Submitted /\ (user_api_key = "" \/ website_url = "")) =>
          /\ ~last.called
          /\ ~last.schema_built
          /\ last.outcome = IF user_api_key = "" THEN "missing_key" ELSE "missing_url"
          /\ last.shown.form = "error"
    /\ last.called => (user_api_key # "" /\ website_url # "" /\ last.url = website_url)

\* A submission with neither key nor URL ended with the missing-key error
C7_Witness ==
    /\ user_api_key = ""
    /\ website_url = ""
    /\ last.outcome = "missing_key"
    /\ ~last.called

\* The extraction and the normalization of the latest submission succeeded
Succeeded(run) ==
    /\ run.called
    /\ run.response.exc = ""
    /\ HandleDataOutput(run.response.val).exc = ""

\* C9: the history is append-only: a step that is no submission leaves it
\* unchanged; a submission appends one user message holding the prompt, and
\* right after it an assistant message holding the rendered table exactly
\* when the extraction and the normalization succeeded.
C9_HistoryAppendOnly ==
    [][IF last'.outcome = "none" THEN messages' = messages
       ELSE messages' =
              messages
                \o <<[role |-> "user", content |-> Plain(last'.prompt)]>>
                \o (IF Succeeded(last')
                    THEN <<[role |-> "assistant",
                            content |-> HandleDataOutput(last'.response.val).val]>>
                    ELSE <<>>)]_vars

\* A failed submission followed by a successful one
C9_Witness ==
    /\ Len(messages) = 3
    /\ messages[1].role = "user"
    /\ messages[2].role = "user"
    /\ messages[3].role = "assistant"
    /\ messages[3].content.form = "markdown"
    /\ last.outcome = "ok"

\* C10: the field list always has between 1 and 5 entries; it grows only by
\* Add Field appending a field of empty name and type "str" to a list of
\* fewer than 5, the fields before it unchanged; nothing removes a field.
C10_FieldListBounds ==
    /\ Len(schema_fields) \in 1..MaxFields
    /\ [][/\ Len(schema_fields') \in 1..MaxFields
          /\ Len(schema_fields') >= Len(schema_fields)
          /\ Len(schema_fields') # Len(schema_fields) =>
                /\ Len(schema_fields) < MaxFields
                /\ schema_fields' = schema_fields \o <<[name |-> "", type |-> "str"]>>]_vars

\* Five fields, the first one edited: Add Field is gone
C10_Witness ==
    /\ Len(schema_fields) = MaxFields
    /\ schema_fields[1] = [name |-> "price", type |-> "float"]
    /\ ~CanAddField(schema_fields)

\* An earlier submission ended in an error: its user message has no
\* assistant message after it
ErrorInHistory ==
    \E i \in 1..Len(messages) :
        /\ messages[i].role = "user"
        /\ (i = Len(messages) \/ messages[i + 1].role = "user")

\* C8: a submission that ends in an error leaves the history and the field
\* list intact and the handler idle, and a later submission with key, URL and
\* a succeeding extraction call produces its result.
C8_ErrorsKeepSessionUsable ==
    [][/\ last'.outcome \in {"missing_key", "missing_url", "exception"} =>
            /\ SubSeq(messages', 1, Len(messages)) = messages
            /\ schema_fields' = schema_fields
       /\ (/\ ErrorInHistory
           /\ last'.outcome # "none"
           /\ user_api_key # ""
           /\ website_url # ""
           /\ last'.response.exc = "") =>
            /\ last'.outcome = "ok"
            /\ Len(messages') = Len(messages) + 2
            /\ messages'[Len(messages')] = [role |-> "assistant", content |-> last'.shown]]_vars

(***************************************************************************)
(* Result Normalizer: properties (SpecNorm)                                *)
(***************************************************************************)
\* The response's `data`
DataOf(response) == Get(response, "data")

\* The positions of the keys of a mapping that hold a list
ListKeyIndexes(d) == {i \in 1..Len(d.keys) : IsList(d.elems[i])}

FirstListIndex(d) ==
    CHOOSE i \in ListKeyIndexes(d) : \A j \in ListKeyIndexes(d) : i <= j

\* Line i of the table holds `item`: each of its fields under the field's
\* column, and an empty cell under every other column
RowHolds(str, i, item) ==
    IF IsDict(item)
    THEN /\ \A k \in 1..Len(item.keys) :
                \E j \in 1..Len(str.columns) : str.columns[j] = item.keys[k]
         /\ \A j \in 1..Len(str.columns) :
                str.rows[i][j] = IF HasKey(item, str.columns[j])
                                 THEN GetItem(item, str.columns[j]) ELSE NaN
    ELSE str.rows[i] = <<item>>

\* `str` is the rendering of the table whose rows are `items`, in order
\* (the empty string for no rows)
IsTableOf(str, items) ==
    IF items = <<>> THEN str.form = "plain" /\ str.text = ""
    ELSE /\ str.form = "markdown"
         /\ Len(str.rows) = Len(items)
         /\ \A i \in 1..Len(items) : RowHolds(str, i, items[i])

\* C1: when `data` is a mapping with at least one list-valued key, the table's
\* rows are the elements of the list under the first key (in insertion order)
\* whose value is a list, however many non-list keys precede it.
C1_FirstListValuedKey ==
    (HasRun /\ IsDict(DataOf(fn_in)) /\ ListKeyIndexes(DataOf(fn_in)) # {})
        => /\ fn_out.exc = ""
           /\ IsTableOf(fn_out.val,
                        DataOf(fn_in).elems[FirstListIndex(DataOf(fn_in))].elems)

\* C2: normalization never raises: for every response it ends with a table
\* or with the plain-text rendering of the whole response.
C2_NeverRaises ==
    HasRun => /\ fn_out.exc = ""
              /\ fn_out.val.form \in {"markdown", "plain", "str"}

\* C3: when `data` is a mapping with no list-valued key (the mapping with no
\* key included), the table has exactly one row, which is the mapping itself.
C3_SingleObjectRow ==
    (HasRun /\ IsDict(DataOf(fn_in)) /\ ListKeyIndexes(DataOf(fn_in)) = {})
        => /\ fn_out.exc = ""
           /\ IsTableOf(fn_out.val, <<DataOf(fn_in)>>)

(***************************************************************************)
(* Schema Builder: properties (SpecSchema)                                 *)
(***************************************************************************)
NonEmptyNames(fields) == {fields[i].name : i \in 1..Len(fields)} \ {""}

\* The type token of the last field named n
LastTypeOf(fields, n) ==
    fields[CHOOSE i \in 1..Len(fields) :
              /\ fields[i].name = n
              /\ \A j \in 1..Len(fields) : fields[j].name = n => j <= i].type

\* C4: for a field list with at least one non-empty name (and supported
\* types), the schema's properties are exactly the non-empty names, each with
\* the primitive type of the last field of that name.
C4_PropertiesAreNonEmptyNames ==
    (/\ HasRun
     /\ NonEmptyNames(fn_in) # {}
     /\ \A i \in 1..Len(fn_in) : fn_in[i].type \in SupportedTypes)
        => /\ fn_out.exc = ""
           /\ IsDict(fn_out.val)
           /\ LET props == Get(fn_out.val, "properties") IN
                /\ {props.keys[i] : i \in 1..Len(props.keys)} = NonEmptyNames(fn_in)
                /\ \A n \in NonEmptyNames(fn_in) :
                      /\ HasKey(props, n)
                      /\ Get(GetItem(props, n), "type")
                            = Scalar(JsonType(LastTypeOf(fn_in, n)))

HasUnsupportedType(fields) ==
    \E i \in 1..Len(fields) : fields[i].type \notin SupportedTypes

\* C6 as stated: a field list holding a field of unsupported type makes the
\* Schema Builder fail, whatever that field's name (empty or not).
C6_UnsupportedTypeAlwaysFails ==
    (HasRun /\ HasUnsupportedType(fn_in)) => fn_out.exc # ""

\* C6 as amended: the Schema Builder fails (a KeyError on the type token)
\* exactly when a field with a non-empty name has an unsupported type; a
\* field with an empty name is skipped whatever its type.
C6_FailsIffNamedFieldUnsupported ==
    HasRun =>
        (fn_out.exc = "KeyError"
            <=> \E i \in 1..Len(fn_in) :
                    fn_in[i].name # "" /\ fn_in[i].type \notin SupportedTypes)

\* A named field of unsupported type after an unnamed one of unsupported
\* type: the builder has raised
C6_Witness ==
    /\ HasRun
    /\ Len(fn_in) = 2
    /\ fn_in[1] = [name |-> "", type |-> "list"]
    /\ fn_in[2] = [name |-> "price", type |-> "list"]
    /\ fn_out.exc = "KeyError"

====
